---- MODULE Spec2Model ----
(***************************************************************************)
(* A model of the MacDL download engine (src/macdl/core/downloader.py):    *)
(* Downloader.download with its streaming path (_download_simple), its     *)
(* segmented path (_download_segmented, _download_segment,                 *)
(* _merge_segments) and the segment planner (_create_segments); of the     *)
(* progress tracker's update values (core/progress.py); of the plugin      *)
(* registry (plugins/registry.py) and of the dispatchers that stand        *)
(* between a URL and the engine (cli/main.py _download_with_plugin,        *)
(* gui/main_window.py _download_async).                                    *)
(*                                                                         *)
(* The server's body of length n is the byte sequence <<1, 2, .., n>>: the *)
(* byte at offset k has the value k+1, so a misplaced, missing or doubled  *)
(* byte always shows.  Files are byte sequences.                           *)
(***************************************************************************)
EXTENDS Integers, Sequences, FiniteSets, TLC

\* ------------------------------------------------------------------ bounds
\* Largest body length the server holds.
MaxSize == 3
\* Config.chunk_size, scaled down from 1 MiB.
ChunkSize == 1
\* Largest num_threads a caller asks for.
MaxThreads == 2
\* Config.max_retries.
MaxRetries == 2
\* How many times in one download the server or the network misbehaves: an
\* error status, a transport error, a 200 given to a segment's ranged GET.
MaxFaults == 3
\* Planner inputs of the planner's own specification.
PlanMaxSize == 8
PlanMaxThreads == 8
\* Largest number of threads a caller asks the dispatcher for (-t).
MaxRequested == 3
\* Largest number of descriptors an extractor resolves one URL to.
MaxInfos == 2
\* Largest max_threads a plugin class declares.
MaxPluginThreads == 2
\* config.timeout, in ticks of the clock
Timeout == 2
\* how deep below the root the paths on disk and the caller's output_path go
MaxDepth == 2
\* ProgressTracker.update_interval, in ticks of the clock
UpdateInterval == 2
\* how far the clock of the progress tracker runs
MaxTime == 8

\* ------------------------------------------------------------- primitives
Min(a, b) == IF a < b THEN a ELSE b

\* The server's full response body.
Body(n) == [k \in 1..n |-> k]

\* The bytes at offsets lo..hi of the body (empty when lo > hi).
BodyRange(n, lo, hi) == SubSeq(Body(n), lo + 1, Min(hi, n - 1) + 1)

\* A local file left at output_path by an earlier run: its first n bytes.
LocalFile(n) == [k \in 1..n |-> k]

\* A backoff that grows linearly.
LinearBackoff(attempt) == 2 * attempt

\* asyncio.sleep(2 ** attempt)
Backoff(attempt) == 2 ^ attempt

\* An exception, as recorded in job.error_message: the segment whose fetcher
\* raised it (-1 outside a fetcher), its kind and the HTTP status it names.
NoError == [seg |-> -1, kind |-> "none", status |-> 0]
Error(seg, kind, status) == [seg |-> seg, kind |-> kind, status |-> status]

\* ---------------------------------------------------------------- planner
\* Segment(id, start, end) with the dataclass defaults.
Segment(id, start, end) ==
    [id |-> id, start |-> start, end |-> end, downloaded |-> 0,
     temp_file |-> FALSE, completed |-> FALSE]

\* Segment.size
SegSize(seg) == seg.end - seg.start + 1

\* A planner that gives the last segment no remainder.
create_segments_no_remainder(total_size, num_segments) ==
    LET segment_size == total_size \div num_segments
    IN  [k \in 1..num_segments |->
            Segment(k - 1, (k - 1) * segment_size, (k - 1) * segment_size + segment_size - 1)]

\* Downloader._create_segments: list index k holds the segment with id k-1.
create_segments(total_size, num_segments) ==
    LET segment_size == total_size \div num_segments
    IN  [k \in 1..num_segments |->
            LET i == k - 1
                start == i * segment_size
            IN  Segment(i, start,
                        IF i = num_segments - 1 THEN total_size - 1
                        ELSE start + segment_size - 1)]

\* ------------------------------------------------------------------ state
VARIABLES
    server,     \* what the server holds and says to HEAD: body_len, size_known, resume
    args,       \* download()'s arguments: num_threads
    dl,         \* download()'s frame: pc, strategy, the exception it got from gather
    job,        \* the DownloadJob
    segments,   \* job.segments
    task,       \* one _download_segment coroutine per segment
    staging,    \* the staging files, by list index
    temp_dir,   \* whether the staging directory exists
    out_file,   \* the file at job.output_path
    simple,     \* _download_simple's frame
    faults,     \* how often the server or the network has misbehaved so far
    plan,       \* the planner's own inputs and result
    tracker,    \* the ProgressTracker of the running strategy
    old_staging, \* the staging files a killed run of download() left behind
    registry,   \* PluginRegistry._plugins: the plugin classes, in insertion order
    call,       \* what the dispatcher was called with: url, threads, front end
    disp,       \* the dispatcher's frame (_download_with_plugin, _download_async)
    request,    \* one streaming GET under the session's timeout, with its clock
    paths,      \* download()'s frame while it resolves output_path
    dirs,       \* the directories that exist on disk
    tracking,   \* a ProgressTracker with its clock and the callback's samples
    headers,    \* the headers mapping a caller of download() passed, and its use
    instances   \* PluginRegistry._instances, and the last get_plugin(name) call

vars == <<server, args, dl, job, segments, task, staging, temp_dir, out_file, simple, faults, plan,
          tracker, old_staging, registry, call, disp, request, paths, dirs, tracking, headers,
          instances>>

\* What no step of download() touches.
outside == <<plan, old_staging, registry, call, disp, request, paths, dirs, tracking, headers,
             instances>>

\* What download() and its strategies work on.
transfer == <<server, args, dl, job, segments, task, staging, temp_dir, out_file, simple, faults,
              plan, tracker, old_staging>>

\* What no step of the dispatcher touches.
engine == <<transfer, request, paths, dirs, tracking, headers>>

NoFile == [exists |-> FALSE, data |-> <<>>]
File(data) == [exists |-> TRUE, data |-> data]

\* DownloadJob(...) as constructed by download(), before HEAD has been read.
NewJob ==
    [status |-> "pending", error_message |-> NoError, downloaded_size |-> 0,
     total_size_known |-> FALSE, total_size |-> 0, num_threads |-> 0]

IdleSimple ==
    [pc |-> "idle", start_byte |-> 0, attempt |-> 0, range |-> -1, mode |-> "wb",
     status |-> 0, incoming |-> <<>>, delays |-> <<>>, gets |-> 0]

\* first: the fetcher gather saw complete before the others (0: none yet).
IdleDl == [pc |-> "head", strategy |-> "none", exc |-> NoError, first |-> 0]

\* honoured: every body this fetcher was sent so far came with a 206.
IdleTask ==
    [pc |-> "idle", attempt |-> 0, status |-> 0, lo |-> 0, hi |-> 0,
     incoming |-> <<>>, delays |-> <<>>, gets |-> 0, honoured |-> TRUE]

\* ProgressTracker(...) as constructed.
NoTracker == [started |-> FALSE, downloaded |-> 0]

\* ProgressTracker.start
start(t) == [t EXCEPT !.started = TRUE]

\* ProgressTracker.update.  When update_interval has elapsed since the last
\* notification the callback is given stats.downloaded = self.downloaded:
\* the values the callback sees are a subsequence of the values passed here.
update(t, bytes_downloaded) == [t EXCEPT !.downloaded = bytes_downloaded]

IdlePlan == [total_size |-> 0, num_segments |-> 0, done |-> FALSE, result |-> <<>>]

\* ------------------------------------------------------------- the server
\* The statuses the server may give a GET carrying Range: bytes=lo-hi
\* (ranged = FALSE: no Range header).  206 needs a range it can serve, 416
\* one it cannot; 200 is a server that ignores Range.
ServerAnswers(ranged, lo, hi) ==
    {200, 404, 429, 500}
        \cup (IF ranged /\ lo <= hi /\ lo < server.body_len THEN {206} ELSE {})
        \cup (IF ranged /\ lo >= server.body_len THEN {416} ELSE {})

\* The answer of a well-behaved server to Range: bytes=lo-hi, which it can
\* always give, whatever has gone wrong before: 206 for a range it can
\* serve, 416 for one that starts behind the body, 200 for one that is no
\* range (lo > hi).
Regular(st, lo, hi) ==
    IF lo <= hi /\ lo < server.body_len THEN st = 206
    ELSE IF lo >= server.body_len THEN st = 416
    ELSE st = 200

\* The body that comes with a 200 or a 206.
ResponseBody(st, lo, hi) ==
    IF st = 206 THEN BodyRange(server.body_len, lo, hi) ELSE Body(server.body_len)

\* response.content.iter_chunked(chunk_size): the next chunk of a body.
NextChunk(incoming) == SubSeq(incoming, 1, Min(ChunkSize, Len(incoming)))
AfterChunk(incoming) == SubSeq(incoming, Min(ChunkSize, Len(incoming)) + 1, Len(incoming))

\* ------------------------------------------------------------ download()
\* A strategy test that forgets the number of threads.
UseSegmentedAnyThreads(size_known, size, resume_supported, num_threads) ==
    size_known /\ size # 0 /\ resume_supported /\ size > ChunkSize

\* The strategy test of download(), with Python's truthiness of info.size.
UseSegmented(size_known, size, resume_supported, num_threads) ==
    size_known /\ size # 0 /\ resume_supported /\ size > ChunkSize /\ num_threads > 1

\* download() up to the creation of the job: HEAD (get_file_info) may raise.
get_file_info ==
    /\ dl.pc = "head"
    /\ \E ok \in BOOLEAN :
        IF ok
        THEN /\ dl' = [dl EXCEPT !.pc = "select"]
             /\ job' = [NewJob EXCEPT
                          !.total_size_known = server.size_known,
                          !.total_size = IF server.size_known THEN server.body_len ELSE 0,
                          !.num_threads = args.num_threads]
        ELSE /\ dl' = [dl EXCEPT !.pc = "raised", !.exc = Error(-1, "head", 0)]
             /\ UNCHANGED job
    /\ UNCHANGED <<server, args, segments, task, staging, temp_dir, out_file, simple, faults, tracker, outside>>

\* download()'s except clause: the job is marked Failed and the exception re-raised.
Failed(j, exc) == [j EXCEPT !.status = "failed", !.error_message = exc]

\* download() after its strategy returned.
Completed(j) == [j EXCEPT !.status = "completed"]

\* ------------------------------------------------------- _download_simple
\* session.get(...) is issued: the frame waits for the response.
SimpleGet(f) == [f EXCEPT !.pc = "wait", !.gets = @ + 1]

\* _download_simple from its first line to its first GET.  The whole of it
\* when the local file already holds total_size bytes ("Already finished").
StartSimple ==
    /\ dl.pc = "select"
    /\ ~UseSegmented(job.total_size_known, job.total_size, server.resume, job.num_threads)
    /\ LET resuming == out_file.exists /\ server.resume
           start_byte == IF resuming THEN Len(out_file.data) ELSE 0
           finished == /\ start_byte > 0
                       /\ job.total_size_known /\ job.total_size # 0
                       /\ start_byte >= job.total_size
           j == [job EXCEPT !.status = "downloading",
                            !.downloaded_size = IF start_byte > 0 THEN start_byte ELSE @]
       IN  IF finished
           THEN /\ job' = Completed(j)
                /\ dl' = [dl EXCEPT !.pc = "done", !.strategy = "streaming"]
                /\ simple' = [simple EXCEPT !.pc = "returned", !.start_byte = start_byte]
                /\ UNCHANGED tracker
           ELSE /\ job' = j
                /\ dl' = [dl EXCEPT !.pc = "simple", !.strategy = "streaming"]
                /\ simple' = SimpleGet([simple EXCEPT
                                 !.start_byte = start_byte,
                                 !.range = IF start_byte > 0 THEN start_byte ELSE -1])
                /\ tracker' = IF start_byte > 0
                              THEN update(start(NoTracker), start_byte)
                              ELSE start(NoTracker)
    /\ UNCHANGED <<server, args, segments, task, staging, temp_dir, out_file, faults, outside>>

\* The streaming loop gives up: DownloadError leaves _download_simple and
\* download() records it.
SimpleRaise(exc) ==
    /\ job' = Failed(job, exc)
    /\ dl' = [dl EXCEPT !.pc = "failed", !.exc = exc]
    /\ simple' = [simple EXCEPT !.pc = "raised", !.incoming = <<>>, !.status = exc.status]
    /\ UNCHANGED out_file

\* An except clause that never gives up.
SimpleExceptForever(j, start_byte, exc) ==
    LET size == IF out_file.exists THEN Len(out_file.data) ELSE 0
    IN  /\ simple' = [simple EXCEPT !.pc = "sleep", !.start_byte = size,
                                    !.range = size, !.incoming = <<>>, !.status = 0,
                                    !.delays = Append(@, Backoff(simple.attempt))]
        /\ job' = j
        /\ UNCHANGED <<dl, out_file>>

\* An except clause that keeps the start_byte it had and never looks at the file.
SimpleExceptKeepsStart(j, start_byte, exc) ==
    IF simple.attempt < MaxRetries
    THEN /\ simple' = [simple EXCEPT !.pc = "sleep", !.start_byte = start_byte,
                                     !.range = start_byte, !.incoming = <<>>, !.status = 0,
                                     !.delays = Append(@, Backoff(simple.attempt))]
         /\ job' = j
         /\ UNCHANGED <<dl, out_file>>
    ELSE /\ job' = Failed(j, exc)
         /\ dl' = [dl EXCEPT !.pc = "failed", !.exc = exc]
         /\ simple' = [simple EXCEPT !.pc = "raised", !.start_byte = start_byte,
                                     !.incoming = <<>>, !.status = exc.status]
         /\ UNCHANGED out_file

\* The except clause of the streaming loop (aiohttp.ClientError, TimeoutError).
\* j is the job as the try body left it.
SimpleExcept(j, start_byte, exc) ==
    IF simple.attempt < MaxRetries
    THEN LET size == IF out_file.exists THEN Len(out_file.data) ELSE 0
         IN  /\ simple' = [simple EXCEPT !.pc = "sleep", !.start_byte = size,
                                         !.range = size, !.incoming = <<>>, !.status = 0,
                                         !.delays = Append(@, Backoff(simple.attempt))]
             /\ job' = j
             /\ UNCHANGED <<dl, out_file>>
    ELSE /\ job' = Failed(j, exc)
         /\ dl' = [dl EXCEPT !.pc = "failed", !.exc = exc]
         /\ simple' = [simple EXCEPT !.pc = "raised", !.start_byte = start_byte,
                                     !.incoming = <<>>, !.status = exc.status]
         /\ UNCHANGED out_file

\* response.raise_for_status() raised ClientResponseError, a ClientError:
\* the except clause of the loop takes it.
SimpleStatusError(j, start_byte, st) ==
    IF simple.attempt < MaxRetries
    THEN LET size == IF out_file.exists THEN Len(out_file.data) ELSE 0
         IN  /\ simple' = [simple EXCEPT !.pc = "sleep", !.start_byte = size,
                                         !.range = size, !.status = st,
                                         !.delays = Append(@, Backoff(simple.attempt))]
             /\ job' = j
             /\ UNCHANGED <<dl, out_file>>
    ELSE /\ job' = Failed(j, Error(-1, "http", st))
         /\ dl' = [dl EXCEPT !.pc = "failed", !.exc = Error(-1, "http", st)]
         /\ simple' = [simple EXCEPT !.pc = "raised", !.start_byte = start_byte,
                                     !.status = st]
         /\ UNCHANGED out_file

\* The response to the streaming GET has arrived with status st.
SimpleRespond ==
    /\ dl.pc = "simple" /\ simple.pc = "wait"
    /\ \E st \in ServerAnswers(simple.range >= 0, simple.range, server.body_len - 1) :
        /\ st < 400 \/ faults < MaxFaults
        /\ faults' = IF st < 400 THEN faults ELSE faults + 1
        /\ IF st = 429
           THEN IF simple.attempt < MaxRetries
                THEN /\ simple' = [simple EXCEPT !.pc = "sleep", !.status = st,
                                      !.delays = Append(@, Backoff(simple.attempt))]
                     /\ UNCHANGED <<job, dl, out_file, tracker>>
                ELSE SimpleRaise(Error(-1, "http", 429)) /\ UNCHANGED tracker
           ELSE LET ignored == simple.start_byte > 0 /\ st # 206
                    start_byte == IF ignored THEN 0 ELSE simple.start_byte
                    j == IF ignored THEN [job EXCEPT !.downloaded_size = 0] ELSE job
                    mode == IF ignored THEN "wb"
                            ELSE IF simple.start_byte > 0 THEN "ab" ELSE "wb"
                IN  /\ tracker' = IF ignored THEN update(tracker, 0) ELSE tracker
                    /\ IF st >= 400
                       THEN SimpleStatusError(j, start_byte, st)
                       ELSE /\ job' = j
                            /\ out_file' = IF mode = "ab" THEN File(out_file.data) ELSE File(<<>>)
                            /\ simple' = [simple EXCEPT
                                  !.pc = "body", !.status = st, !.mode = mode,
                                  !.start_byte = start_byte,
                                  !.incoming = ResponseBody(st, simple.range, server.body_len - 1)]
                            /\ UNCHANGED dl
    /\ UNCHANGED <<server, args, segments, task, staging, temp_dir, outside>>

\* A transport error or a timeout: of the GET itself, or while the body is read.
SimpleNetError ==
    /\ dl.pc = "simple" /\ simple.pc \in {"wait", "body"}
    /\ faults < MaxFaults
    /\ faults' = faults + 1
    /\ SimpleExcept(job, simple.start_byte, Error(-1, "transport", 0))
    /\ UNCHANGED <<server, args, segments, task, staging, temp_dir, tracker, outside>>

\* One turn of the chunk loop: write the chunk, count it.
SimpleChunk ==
    /\ dl.pc = "simple" /\ simple.pc = "body" /\ simple.incoming # <<>>
    /\ LET chunk == NextChunk(simple.incoming)
       IN  /\ out_file' = File(out_file.data \o chunk)
           /\ job' = [job EXCEPT !.downloaded_size = @ + Len(chunk)]
           /\ simple' = [simple EXCEPT !.incoming = AfterChunk(@)]
           /\ tracker' = update(tracker, job.downloaded_size + Len(chunk))
    /\ UNCHANGED <<server, args, dl, segments, task, staging, temp_dir, faults, outside>>

\* The body ended: break, tracker.finish(), return; download() marks Completed.
SimpleEOF ==
    /\ dl.pc = "simple" /\ simple.pc = "body" /\ simple.incoming = <<>>
    /\ simple' = [simple EXCEPT !.pc = "returned"]
    /\ job' = Completed(job)
    /\ dl' = [dl EXCEPT !.pc = "done"]
    /\ UNCHANGED <<server, args, segments, task, staging, temp_dir, out_file, faults, tracker, outside>>

\* The backoff sleep is over: the next attempt issues its GET.
SimpleWake ==
    /\ dl.pc = "simple" /\ simple.pc = "sleep"
    /\ simple' = SimpleGet([simple EXCEPT !.attempt = @ + 1, !.status = 0])
    /\ UNCHANGED <<server, args, dl, job, segments, task, staging, temp_dir, out_file, faults, tracker, outside>>

\* ---------------------------------------------------- _download_segmented
RECURSIVE SumDownloaded(_, _)
SumDownloaded(segs, n) ==
    IF n = 0 THEN 0 ELSE segs[n].downloaded + SumDownloaded(segs, n - 1)

\* An update_progress that counts the first segment only.
update_progress_first(j, segs) == [j EXCEPT !.downloaded_size = segs[1].downloaded]

\* DownloadJob.update_progress
update_progress(j, segs) == [j EXCEPT !.downloaded_size = SumDownloaded(segs, Len(segs))]

\* _download_segmented up to asyncio.gather, and the first step gather gives
\* each _download_segment coroutine: temp_file is set, the Range header is
\* built and the first GET is issued.
StartSegmented ==
    /\ dl.pc = "select"
    /\ UseSegmented(job.total_size_known, job.total_size, server.resume, job.num_threads)
    /\ IF ~job.total_size_known
       THEN /\ job' = Failed([job EXCEPT !.status = "downloading"], Error(-1, "filesize", 0))
            /\ dl' = [dl EXCEPT !.pc = "failed", !.strategy = "segmented",
                                !.exc = Error(-1, "filesize", 0)]
            /\ UNCHANGED <<segments, task, staging, temp_dir, tracker>>
       ELSE LET segs == create_segments(job.total_size, job.num_threads)
            IN  /\ job' = [job EXCEPT !.status = "downloading"]
                /\ tracker' = start(NoTracker)
                /\ dl' = [dl EXCEPT !.pc = "gather", !.strategy = "segmented"]
                /\ segments' = [k \in DOMAIN segs |-> [segs[k] EXCEPT !.temp_file = TRUE]]
                /\ temp_dir' = TRUE
                /\ staging' = [k \in DOMAIN segs |-> NoFile]
                /\ task' = [k \in DOMAIN segs |->
                              [IdleTask EXCEPT !.pc = "wait", !.gets = 1,
                                               !.lo = segs[k].start, !.hi = segs[k].end]]
    /\ UNCHANGED <<server, args, out_file, simple, faults, outside>>

\* Whether the download() call is over (returned or raised).
Exited == dl.pc \in {"done", "failed", "cancelled", "raised"}

\* A fetcher ends with an exception.  asyncio.gather hands the first one to
\* the awaiting _download_segmented; a later one is never retrieved.
SegRaise(k, exc) ==
    /\ task' = [task EXCEPT ![k].pc = "failed", ![k].incoming = <<>>,
                            ![k].status = IF exc.kind = "os" THEN @ ELSE exc.status]
    /\ dl' = IF dl.pc = "gather" /\ dl.exc = NoError THEN [dl EXCEPT !.exc = exc] ELSE dl
    /\ UNCHANGED <<job, segments, staging>>

\* asyncio.sleep(2 ** attempt) before the next turn of the fetcher's loop.
SegSleep(k, st) ==
    /\ task' = [task EXCEPT ![k].pc = "sleep", ![k].status = st, ![k].incoming = <<>>,
                            ![k].delays = Append(@, Backoff(task[k].attempt))]
    /\ UNCHANGED <<dl, job, segments, staging>>

\* The response to fetcher k's GET has arrived with status st.
SegRespond(k) ==
    /\ task[k].pc = "wait"
    /\ \E st \in ServerAnswers(TRUE, task[k].lo, task[k].hi) :
        /\ st = 206 \/ faults < MaxFaults \/ Regular(st, task[k].lo, task[k].hi)
        /\ faults' = IF st = 206 \/ faults >= MaxFaults THEN faults ELSE faults + 1
        /\ IF st = 429
           THEN IF task[k].attempt < MaxRetries
                THEN SegSleep(k, st)
                ELSE SegRaise(k, Error(segments[k].id, "http", 429))
           ELSE IF st \notin {200, 206}
                THEN SegRaise(k, Error(segments[k].id, "http", st))
                ELSE /\ task' = [task EXCEPT
                           ![k].pc = "opening", ![k].status = st,
                           ![k].honoured = @ /\ st = 206,
                           ![k].incoming = ResponseBody(st, task[k].lo, task[k].hi)]
                     /\ UNCHANGED <<dl, job, segments, staging>>
    /\ UNCHANGED <<server, args, temp_dir, out_file, simple, tracker, outside>>

\* aiofiles.open(segment.temp_file, mode) runs open() on an executor thread.
SegOpen(k) ==
    /\ task[k].pc = "opening"
    /\ IF temp_dir
       THEN /\ staging' = [staging EXCEPT ![k] =
                  IF segments[k].downloaded > 0 THEN File(@.data) ELSE File(<<>>)]
            /\ task' = [task EXCEPT ![k].pc = "body"]
            /\ UNCHANGED <<dl, job, segments>>
       ELSE SegRaise(k, Error(segments[k].id, "os", 0))
    /\ UNCHANGED <<server, args, temp_dir, out_file, simple, faults, tracker, outside>>

\* One turn of the fetcher's chunk loop.  A staging file that was unlinked
\* while open takes the bytes but shows under no name.
SegChunk(k) ==
    /\ task[k].pc = "body" /\ task[k].incoming # <<>>
    /\ LET chunk == NextChunk(task[k].incoming)
           segs == [segments EXCEPT ![k].downloaded = @ + Len(chunk)]
       IN  /\ staging' = IF staging[k].exists
                         THEN [staging EXCEPT ![k].data = @ \o chunk] ELSE staging
           /\ segments' = segs
           /\ job' = update_progress(job, segs)
           /\ task' = [task EXCEPT ![k].incoming = AfterChunk(@)]
           /\ tracker' = update(tracker, SumDownloaded(segs, Len(segs)))
    /\ UNCHANGED <<server, args, dl, temp_dir, out_file, simple, faults, outside>>

\* The body ended: break, segment.completed = True.
SegEOF(k) ==
    /\ task[k].pc = "body" /\ task[k].incoming = <<>>
    /\ task' = [task EXCEPT ![k].pc = "done"]
    /\ segments' = [segments EXCEPT ![k].completed = TRUE]
    /\ dl' = [dl EXCEPT !.first = IF @ = 0 THEN k ELSE @]
    /\ UNCHANGED <<server, args, job, staging, temp_dir, out_file, simple, faults, tracker, outside>>

\* A transport error or a timeout: of the GET itself, or while the body is read.
SegNetError(k) ==
    /\ task[k].pc \in {"wait", "body"}
    /\ faults < MaxFaults
    /\ faults' = faults + 1
    /\ IF task[k].attempt < MaxRetries
       THEN SegSleep(k, 0)
       ELSE SegRaise(k, Error(segments[k].id, "transport", 0))
    /\ UNCHANGED <<server, args, temp_dir, out_file, simple, tracker, outside>>

\* A fetcher that asks for its whole range again on every attempt.
SegWakeFromStart(k) ==
    /\ task[k].pc = "sleep"
    /\ task' = [task EXCEPT ![k].pc = "wait", ![k].attempt = @ + 1, ![k].gets = @ + 1,
                            ![k].status = 0,
                            ![k].lo = segments[k].start,
                            ![k].hi = segments[k].end]
    /\ UNCHANGED <<server, args, dl, job, segments, staging, temp_dir, out_file, simple, faults, tracker, outside>>

\* The backoff sleep is over: the next turn rebuilds Range and issues its GET.
SegWake(k) ==
    /\ task[k].pc = "sleep"
    /\ task' = [task EXCEPT ![k].pc = "wait", ![k].attempt = @ + 1, ![k].gets = @ + 1,
                            ![k].status = 0,
                            ![k].lo = segments[k].start + segments[k].downloaded,
                            ![k].hi = segments[k].end]
    /\ UNCHANGED <<server, args, dl, job, segments, staging, temp_dir, out_file, simple, faults, tracker, outside>>

\* ------------------------------------------- merge, cleanup, cancellation
\* A merge that writes the staging files from the last to the first.
merge_segments_descending(stg, n) ==
    LET tail[i \in 0..n] ==
            IF i = 0 THEN <<>>
            ELSE (IF stg[i].exists THEN stg[i].data ELSE <<>>) \o tail[i - 1]
    IN  tail[n]

\* Downloader._merge_segments over the first n staging files: ascending
\* segment id, a staging file that does not exist is skipped.
RECURSIVE merge_segments(_, _)
merge_segments(stg, n) ==
    IF n = 0 THEN <<>>
    ELSE merge_segments(stg, n - 1) \o (IF stg[n].exists THEN stg[n].data ELSE <<>>)

\* The fetchers whose open() is running on an executor thread while the
\* event loop runs the finally block; 0 stands for "none of them interferes".
Racers == {0} \cup {k \in DOMAIN task : task[k].pc = "opening"}

\* The finally block of _download_segmented: every staging file that exists
\* is unlinked, then the directory is removed.  The block runs on the event
\* loop while an open() may run on a thread: when the open() of fetcher r
\* creates its file after the exists() test and before rmdir, rmdir raises
\* OSError (directory not empty) and both stay.
FinallyStaging(r) == [k \in DOMAIN staging |-> IF k = r THEN File(<<>>) ELSE NoFile]
FinallyDir(r) == r # 0
FinallyExc(r, exc) == IF r # 0 THEN Error(-1, "os", 0) ELSE exc

\* gather raised the first fetcher's exception into _download_segmented.
GatherRaise ==
    /\ dl.pc = "gather" /\ dl.exc # NoError
    /\ \E r \in Racers :
        /\ staging' = FinallyStaging(r)
        /\ temp_dir' = FinallyDir(r)
        /\ task' = IF r # 0 THEN [task EXCEPT ![r].pc = "body"] ELSE task
        /\ job' = Failed(job, FinallyExc(r, dl.exc))
        /\ dl' = [dl EXCEPT !.pc = "failed", !.exc = FinallyExc(r, dl.exc)]
    /\ UNCHANGED <<server, args, segments, out_file, simple, faults, tracker, outside>>

\* A merge that does not wait for gather to return.
MergeEarly ==
    /\ dl.pc = "gather" /\ dl.exc = NoError
    /\ \E upto \in 0..Len(segments) :
        /\ out_file' = File(merge_segments(staging, upto))
        /\ IF upto = Len(segments)
           THEN /\ job' = Completed(job)
                /\ dl' = [dl EXCEPT !.pc = "done"]
           ELSE /\ job' = Failed(job, Error(-1, "os", 0))
                /\ dl' = [dl EXCEPT !.pc = "failed", !.exc = Error(-1, "os", 0)]
    /\ staging' = FinallyStaging(0)
    /\ temp_dir' = FinallyDir(0)
    /\ UNCHANGED <<server, args, segments, task, simple, faults, tracker, outside>>

\* gather returned: every fetcher is done.  The merge copies the staging
\* files into output_path, or stops at a disk error after the first `upto`.
Merge ==
    /\ dl.pc = "gather" /\ dl.exc = NoError
    /\ \A k \in DOMAIN task : task[k].pc = "done"
    /\ \E upto \in 0..Len(segments) :
        /\ out_file' = File(merge_segments(staging, upto))
        /\ IF upto = Len(segments)
           THEN /\ job' = Completed(job)
                /\ dl' = [dl EXCEPT !.pc = "done"]
           ELSE /\ job' = Failed(job, Error(-1, "os", 0))
                /\ dl' = [dl EXCEPT !.pc = "failed", !.exc = Error(-1, "os", 0)]
    /\ staging' = FinallyStaging(0)
    /\ temp_dir' = FinallyDir(0)
    /\ UNCHANGED <<server, args, segments, task, simple, faults, tracker, outside>>

\* The task running download() is cancelled while it awaits the streaming
\* transfer or gather.  CancelledError is no Exception: download()'s except
\* clause does not see it.  gather cancels its fetchers.
Cancel ==
    /\ \/ dl.pc = "simple"
       \/ dl.pc = "gather" /\ dl.exc = NoError
    /\ IF dl.pc = "simple"
       THEN /\ simple' = [simple EXCEPT !.pc = "cancelled", !.incoming = <<>>]
            /\ dl' = [dl EXCEPT !.pc = "cancelled"]
            /\ UNCHANGED <<job, task, staging, temp_dir>>
       ELSE \E r \in Racers :
            /\ task' = [k \in DOMAIN task |->
                          IF task[k].pc \in {"done", "failed"} THEN task[k]
                          ELSE [IdleTask EXCEPT !.pc = "cancelled"]]
            /\ staging' = FinallyStaging(r)
            /\ temp_dir' = FinallyDir(r)
            /\ IF r # 0
               THEN /\ job' = Failed(job, Error(-1, "os", 0))
                    /\ dl' = [dl EXCEPT !.pc = "failed", !.exc = Error(-1, "os", 0)]
               ELSE /\ dl' = [dl EXCEPT !.pc = "cancelled"]
                    /\ UNCHANGED job
            /\ UNCHANGED simple
    /\ UNCHANGED <<server, args, segments, out_file, faults, tracker, outside>>

\* -------------------------------------------------------------- plugins
\* URLs, as far as the plugins' matching reads them: whether the string
\* starts with http:// or https://, the host it names, the kind of its path.
Urls ==
    [scheme : {"https://", "http://", ""},
     host : {"gofile.io", "bunkr.si", "bunkr.xyz", "custom.example", "example.com"},
     path : {"/d/x", "/a/x", "/"}]

\* A class attribute max_threads: not declared at all, or declared with a
\* value (0 stands for None).
NoMaxThreads == [declared |-> FALSE, value |-> 0]
MaxThreadsOf(v) == [declared |-> TRUE, value |-> v]

\* A plugin class: BasePlugin and the built-in classes declare no max_threads.
PluginClass(name, max_threads) == [name |-> name, max_threads |-> max_threads]

\* The order in which _load_builtin_plugins registers the built-in classes.
Builtin ==
    <<PluginClass("http", NoMaxThreads),
      PluginClass("gofile", NoMaxThreads),
      PluginClass("bunkr", NoMaxThreads)>>

\* The classes there are to register: the built-in ones, and a class of the
\* user's own (a BasePlugin subclass), which may declare max_threads.
PluginClasses ==
    {Builtin[k] : k \in DOMAIN Builtin}
        \cup {PluginClass("custom", NoMaxThreads)}
        \cup {PluginClass("custom", MaxThreadsOf(v)) : v \in 0..MaxPluginThreads}

\* The class attribute domains.
domains(name) ==
    CASE name = "gofile" -> {"gofile.io"}
      [] name = "bunkr" -> {"bunkr.si"}
      [] name = "custom" -> {"custom.example"}
      [] OTHER -> {}

\* re.search over the class attribute url_patterns.
url_patterns(name, url) ==
    CASE name = "gofile" -> url.host = "gofile.io" /\ url.path = "/d/x"
      [] name = "bunkr" -> url.host \in {"bunkr.si", "bunkr.xyz"} /\ url.path = "/a/x"
      [] name = "http" -> url.scheme # ""
      [] OTHER -> FALSE

\* BasePlugin.can_handle, and HTTPPlugin's override of it.
can_handle(name, url) ==
    IF name = "http"
    THEN url.scheme \in {"http://", "https://"}
    ELSE url.host \in domains(name) \/ url_patterns(name, url)

\* PluginRegistry.register: a dict assignment, a name already there keeps
\* its place.
register(reg, plugin_class) ==
    IF \E k \in DOMAIN reg : reg[k].name = plugin_class.name
    THEN [k \in DOMAIN reg |-> IF reg[k].name = plugin_class.name THEN plugin_class ELSE reg[k]]
    ELSE Append(reg, plugin_class)

\* PluginRegistry.unregister
unregister(reg, name) == SelectSeq(reg, LAMBDA c : c.name # name)

\* The indices of the registered classes that can handle the URL.
Matching(reg, url) == {k \in DOMAIN reg : can_handle(reg[k].name, url)}

\* PluginRegistry.get_plugin_for_url: the first class in dict order whose
\* can_handle accepts the URL; None when there is none.
get_plugin_for_url(reg, url) ==
    IF Matching(reg, url) = {} THEN PluginClass("none", NoMaxThreads)
    ELSE reg[CHOOSE k \in Matching(reg, url) : \A m \in Matching(reg, url) : k <= m]

\* None, as a class.
NoPlugin == PluginClass("none", NoMaxThreads)

\* self._plugins.get(name): the registered class of that name, or None.
Registered(reg, name) ==
    IF \E k \in DOMAIN reg : reg[k].name = name
    THEN reg[CHOOSE k \in DOMAIN reg : reg[k].name = name]
    ELSE NoPlugin

\* PluginRegistry.get_plugin, by the class of the instance it returns: None
\* for a name that is not registered, else the cached instance when there
\* is one, else a new instance of the registered class.  inst holds the
\* class of each cached instance.
get_plugin(reg, inst, name) ==
    IF Registered(reg, name) = NoPlugin THEN NoPlugin
    ELSE IF \E c \in inst : c.name = name
    THEN CHOOSE c \in inst : c.name = name
    ELSE Registered(reg, name)

\* PluginRegistry._instances after get_plugin(name).
instances_after_get(reg, inst, name) ==
    IF Registered(reg, name) # NoPlugin /\ ~\E c \in inst : c.name = name
    THEN inst \cup {Registered(reg, name)}
    ELSE inst

\* get_plugin_for_url by the instance it returns: the loop calls get_plugin
\* for each name in dict order, up to the first whose instance can handle
\* the URL.
instance_for_url(reg, inst, url) ==
    IF Matching(reg, url) = {} THEN NoPlugin
    ELSE get_plugin(reg, inst, get_plugin_for_url(reg, url).name)

\* PluginRegistry._instances after get_plugin_for_url(url).
instances_after_lookup(reg, inst, url) ==
    LET last == IF Matching(reg, url) = {} THEN Len(reg)
                ELSE CHOOSE k \in Matching(reg, url) : \A m \in Matching(reg, url) : k <= m
    IN  inst \cup {reg[k] : k \in {m \in 1..last : ~\E c \in inst : c.name = reg[m].name}}

\* An empty instance cache, and no get_plugin call made yet.
IdleInstances == [classes |-> {}, name |-> "", got |-> NoPlugin]

\* ----------------------------------------------------------- dispatcher
NoCall ==
    [url |-> [scheme |-> "", host |-> "example.com", path |-> "/"],
     threads |-> 0, front |-> "none"]

\* The dispatcher's frame before its first line.  plugin: the class the
\* lookup gave; threads: the local variable threads; n, i: the number of
\* descriptors and the index of the current one; direct: the source URL
\* itself is downloaded; tried: the plugins whose extract() was awaited;
\* started: the engine invocations made; signals: what the GUI was told.
IdleDisp ==
    [pc |-> "start", plugin |-> PluginClass("none", NoMaxThreads), threads |-> 0,
     n |-> 0, i |-> 0, direct |-> FALSE, tried |-> <<>>, started |-> <<>>,
     signals |-> <<>>, error |-> "none", result |-> "none"]

\* The dispatcher goes on to download the source URL itself.
Direct(f) == [f EXCEPT !.pc = "single", !.direct = TRUE, !.n = 1, !.i = 1]

\* `if plugin.max_threads and threads > plugin.max_threads: threads = ...`
clamp(threads, max_threads) ==
    IF max_threads.value # 0 /\ threads > max_threads.value
    THEN max_threads.value ELSE threads

\* A dispatcher that answers a failed extraction with a direct download.
ExtractionFallsBack(f, front) ==
    Direct([f EXCEPT !.error = "ExtractionError"])

\* plugin.extract raised.  _download_with_plugin prints and returns None,
\* _download_async emits the failed signal, PluginRegistry.extract lets the
\* exception through.  (HTTPPlugin.extract raises aiohttp's ClientError.)
ExtractionFailed(f, front) ==
    [f EXCEPT !.pc = IF front = "registry" THEN "raised" ELSE "returned",
              !.error = IF f.plugin.name = "http" THEN "ClientError" ELSE "ExtractionError",
              !.result = IF front = "cli" THEN "None"
                         ELSE IF front = "registry" THEN "exception" ELSE @,
              !.signals = IF front = "gui" THEN Append(@, "failed") ELSE @]

\* _download_single raised (get_file_info or download()).  Inside the
\* plugin branch of _download_with_plugin the except clause prints and
\* returns None; on the direct path the exception leaves the dispatcher;
\* _download_async emits the failed signal and ends.
DownloadRaised(f, front) ==
    IF front = "gui"
    THEN [f EXCEPT !.pc = "returned", !.error = "DownloadError",
                   !.signals = Append(@, "failed")]
    ELSE IF f.direct
         THEN [f EXCEPT !.pc = "raised", !.error = "DownloadError", !.result = "exception"]
         ELSE [f EXCEPT !.pc = "returned", !.error = "DownloadError", !.result = "None"]

\* _download_with_plugin up to its first await.
download_with_plugin ==
    /\ call.front = "cli" /\ disp.pc = "start"
    /\ LET plugin == instance_for_url(registry, instances.classes, call.url)
           f == [disp EXCEPT !.plugin = plugin, !.threads = call.threads]
       IN  disp' =
             IF plugin.name \notin {"none", "http"}
             THEN IF ~plugin.max_threads.declared
                  THEN [f EXCEPT !.pc = "returned", !.error = "AttributeError",
                                 !.result = "None"]
                  ELSE [f EXCEPT !.pc = "extracting",
                                 !.threads = clamp(call.threads, plugin.max_threads),
                                 !.tried = Append(@, plugin.name)]
             ELSE Direct(f)
    /\ instances' = [instances EXCEPT !.classes = instances_after_lookup(registry, @, call.url)]
    /\ UNCHANGED <<engine, registry, call>>

\* MainWindow._download_async up to its first await.
download_async ==
    /\ call.front = "gui" /\ disp.pc = "start"
    /\ LET plugin == instance_for_url(registry, instances.classes, call.url)
           f == [disp EXCEPT !.plugin = plugin, !.threads = call.threads]
       IN  disp' =
             IF plugin.name \notin {"none", "http"}
             THEN [f EXCEPT !.pc = "extracting", !.tried = Append(@, plugin.name)]
             ELSE Direct(f)
    /\ instances' = [instances EXCEPT !.classes = instances_after_lookup(registry, @, call.url)]
    /\ UNCHANGED <<engine, registry, call>>

\* PluginRegistry.extract up to its await.
registry_extract ==
    /\ call.front = "registry" /\ disp.pc = "start"
    /\ LET plugin == instance_for_url(registry, instances.classes, call.url)
           f == [disp EXCEPT !.plugin = plugin, !.threads = call.threads]
       IN  disp' =
             IF plugin.name = "none"
             THEN [f EXCEPT !.pc = "raised", !.error = "UnsupportedURLError",
                            !.result = "exception"]
             ELSE [f EXCEPT !.pc = "extracting", !.tried = Append(@, plugin.name)]
    /\ instances' = [instances EXCEPT !.classes = instances_after_lookup(registry, @, call.url)]
    /\ UNCHANGED <<engine, registry, call>>

\* plugin.extract(url) ends: it raises, or returns a list of descriptors.
Extract ==
    /\ disp.pc = "extracting"
    /\ \E outcome \in {-1} \cup 0..MaxInfos :
        disp' =
          IF outcome = -1 THEN ExtractionFailed(disp, call.front)
          ELSE IF call.front = "registry"
               THEN [disp EXCEPT !.pc = "returned", !.n = outcome, !.result = "infos"]
          ELSE IF outcome = 0
               THEN IF call.front = "cli"
                    THEN [disp EXCEPT !.pc = "returned", !.error = "NoFiles",
                                      !.result = "None"]
                    ELSE Direct(disp)
          ELSE [disp EXCEPT !.pc = "single", !.n = outcome, !.i = 1]
    /\ UNCHANGED <<engine, registry, call, instances>>

\* One engine invocation for the current descriptor (_download_single; in
\* the GUI the body of the for loop): get_file_info and download() return a
\* Completed job or raise.  For a source URL that is no http(s) URL the
\* session's HEAD can only raise.
download_single ==
    /\ disp.pc = "single"
    /\ \E outcome \in (IF disp.direct /\ call.url.scheme = ""
                        THEN {"raised"} ELSE {"completed", "raised"}) :
        LET f == [disp EXCEPT !.started =
                     Append(@, [descriptor |-> IF disp.direct THEN 0 ELSE disp.i,
                                threads |-> disp.threads])]
            g == [f EXCEPT !.signals =
                     IF call.front = "gui" THEN Append(@, "completed") ELSE @]
        IN  disp' =
              IF outcome = "raised" THEN DownloadRaised(f, call.front)
              ELSE IF disp.i < disp.n THEN [g EXCEPT !.i = @ + 1]
              ELSE [g EXCEPT !.pc = "returned",
                             !.result = IF call.front = "cli" THEN "job" ELSE @]
    /\ UNCHANGED <<engine, registry, call, instances>>

\* get_registry: the global registry is created and the built-in classes
\* are registered.
LoadBuiltinPlugins ==
    /\ registry = <<>> /\ disp.pc = "start"
    /\ registry' = register(register(register(<<>>, Builtin[1]), Builtin[2]), Builtin[3])
    /\ UNCHANGED <<engine, call, disp, instances>>

Register ==
    /\ disp.pc = "start"
    /\ \E plugin_class \in PluginClasses : registry' = register(registry, plugin_class)
    /\ UNCHANGED <<engine, call, disp, instances>>

Unregister ==
    /\ disp.pc = "start"
    /\ \E k \in DOMAIN registry :
        /\ registry' = unregister(registry, registry[k].name)
        /\ instances' = [instances EXCEPT
                            !.classes = {c \in @ : c.name # registry[k].name}]
    /\ UNCHANGED <<engine, call, disp>>

\* registry.get_plugin_for_url(url) for some URL.
Lookup ==
    /\ disp.pc = "start"
    /\ \E url \in Urls :
        /\ call' = [call EXCEPT !.url = url]
        /\ disp' = [disp EXCEPT !.pc = "looked",
                                !.plugin = instance_for_url(registry, instances.classes, url)]
        /\ instances' = [instances EXCEPT
                            !.classes = instances_after_lookup(registry, @, url)]
    /\ UNCHANGED <<engine, registry>>

\* The names get_plugin is asked for.
PluginNames == {"http", "gofile", "bunkr", "custom"}

\* registry.get_plugin(name) for some name.
GetPlugin ==
    /\ disp.pc = "start"
    /\ \E name \in PluginNames :
        instances' = [classes |-> instances_after_get(registry, instances.classes, name),
                      name |-> name,
                      got |-> get_plugin(registry, instances.classes, name)]
    /\ UNCHANGED <<engine, registry, call, disp>>

\* The caller of get_plugin_for_url has its answer and goes on.
LookupReturns ==
    /\ disp.pc = "looked"
    /\ disp' = IdleDisp
    /\ call' = NoCall
    /\ UNCHANGED <<engine, registry, instances>>

\* ------------------------------------------------------ the session timeout
\* _create_session: ClientTimeout(total = config.timeout).  One timer per
\* request, started when session.get is called and running until the body
\* has been read: total counts its ticks, idle the ticks since the last
\* chunk (since the GET, before the first chunk).
IdleRequest ==
    [pc |-> "idle", size |-> 0, attempt |-> 0, total |-> 0, idle |-> 0, received |-> 0]

\* session.get(...) of the streaming loop: the request's timer starts.
TimedGet(r) == [r EXCEPT !.pc = "read", !.total = 0, !.idle = 0]

\* The first attempt of the streaming loop.
TimedStart ==
    /\ request.pc = "start"
    /\ request' = TimedGet(request)
    /\ UNCHANGED <<transfer, registry, call, disp, paths, dirs, tracking, headers, instances>>

\* One tick of the clock while the request is open.  The timer fires at
\* Timeout ticks: time does not pass that point with the request open.
TimedTick ==
    /\ request.pc = "read" /\ request.total < Timeout
    /\ request' = [request EXCEPT !.total = @ + 1, !.idle = @ + 1]
    /\ UNCHANGED <<transfer, registry, call, disp, paths, dirs, tracking, headers, instances>>

\* One turn of the chunk loop: a chunk has arrived and is written.
TimedChunk ==
    /\ request.pc = "read" /\ request.total < Timeout
    /\ request.received < request.size
    /\ request' = [request EXCEPT !.received = @ + ChunkSize, !.idle = 0]
    /\ UNCHANGED <<transfer, registry, call, disp, paths, dirs, tracking, headers, instances>>

\* The body ended before the timer fired.
TimedEOF ==
    /\ request.pc = "read" /\ request.total < Timeout
    /\ request.received = request.size
    /\ request' = [request EXCEPT !.pc = "returned"]
    /\ UNCHANGED <<transfer, registry, call, disp, paths, dirs, tracking, headers, instances>>

\* The timer fires: the pending read raises TimeoutError, which the except
\* clause of the loop takes as it takes a ClientError.
TimedOut ==
    /\ request.pc = "read" /\ request.total = Timeout
    /\ request' = [request EXCEPT
                      !.pc = IF request.attempt < MaxRetries THEN "sleep" ELSE "raised"]
    /\ UNCHANGED <<transfer, registry, call, disp, paths, dirs, tracking, headers, instances>>

\* The backoff sleep is over: the next attempt asks for the rest of the body
\* (the server honours the Range) under a timer of its own.
TimedWake ==
    /\ request.pc = "sleep"
    /\ request' = TimedGet([request EXCEPT !.attempt = @ + 1])
    /\ UNCHANGED <<transfer, registry, call, disp, paths, dirs, tracking, headers, instances>>

\* -------------------------------------------------------------- output path
\* Paths are sequences of names below the root <<>>.
Names == {"a", "b"}

RECURSIVE PathsUpTo(_)
PathsUpTo(d) ==
    IF d = 0 THEN {<<>>}
    ELSE PathsUpTo(d - 1) \cup {Append(p, n) : p \in PathsUpTo(d - 1), n \in Names}

\* path.parent and its ancestors.
Ancestors(path) == {SubSeq(path, 1, k) : k \in 0..(Len(path) - 1)}

\* Path.is_dir()
is_dir(path, ds) == path \in ds

\* config.download_dir
download_dir == <<"Downloads">>

\* output_path: Optional[Path]
NoPath == [given |-> FALSE, path |-> <<>>]
GivenPath(path) == [given |-> TRUE, path |-> path]

\* _extract_filename: from Content-Disposition, else the last name of the
\* URL's path, else "download".  "" stands for a missing part.
extract_filename(content_disposition, url_name) ==
    IF content_disposition # "" THEN content_disposition
    ELSE IF url_name # "" THEN url_name
    ELSE "download"

\* filename or info.filename ("" stands for None and for the empty string).
final_filename(filename, info_filename) ==
    IF filename # "" THEN filename ELSE info_filename

\* A resolution that takes every path the caller gives as the file's path.
output_path_literal(output_path, name, ds) ==
    IF ~output_path.given THEN Append(download_dir, name)
    ELSE output_path.path

\* download(): "Determine output path".
output_path_of(output_path, name, ds) ==
    IF ~output_path.given THEN Append(download_dir, name)
    ELSE IF is_dir(output_path.path, ds) THEN Append(output_path.path, name)
    ELSE output_path.path

IdlePaths ==
    [pc |-> "idle", output_path |-> NoPath, filename |-> "", content_disposition |-> "",
     url_name |-> "", final_filename |-> "", job_output_path |-> <<>>, strategy |-> "none"]

\* download() from the HEAD's answer to the creation of the job.
DeterminePath ==
    /\ paths.pc = "start"
    /\ LET info_filename == extract_filename(paths.content_disposition, paths.url_name)
           name == final_filename(paths.filename, info_filename)
       IN  paths' = [paths EXCEPT !.pc = "job", !.final_filename = name,
                        !.job_output_path = output_path_of(paths.output_path, name, dirs)]
    /\ UNCHANGED <<transfer, registry, call, disp, request, dirs, tracking, headers, instances>>

\* The strategy opens the file at job.output_path for writing, after
\* output_path.parent.mkdir(parents=True, exist_ok=True): _download_simple
\* before its write loop, _merge_segments before the merge.  open() raises
\* when a directory lies at the path.
OpenOutput ==
    /\ paths.pc = "job"
    /\ \E strategy \in {"streaming", "segmented"} :
        /\ dirs' = dirs \cup Ancestors(paths.job_output_path)
        /\ paths' = [paths EXCEPT
                        !.strategy = strategy,
                        !.pc = IF is_dir(paths.job_output_path, dirs') THEN "failed"
                               ELSE "opened"]
    /\ UNCHANGED <<transfer, registry, call, disp, request, tracking, headers, instances>>

\* ------------------------------------------------------ progress tracker
\* ProgressTracker(total_size, callback) as constructed, with the clock
\* time.time() reads and the samples the callback has been given.  The
\* clock counts from the epoch: it never reads less than update_interval.
IdleTracking ==
    [now |-> UpdateInterval, started |-> FALSE, start_time |-> 0, last_update_time |-> 0,
     total_size |-> 0, downloaded |-> 0, last_downloaded |-> 0,
     samples |-> <<>>, finished |-> FALSE]

\* An update() that notifies whatever the clock reads.
due_always(t) == TRUE

\* update()'s test: elapsed_since_update >= self.update_interval
due(t) == t.now - t.last_update_time >= UpdateInterval

\* ProgressTracker._calculate_and_notify: the callback gets the stats, then
\* last_update_time and last_downloaded are set.
calculate_and_notify(t) ==
    [t EXCEPT !.samples = Append(@, [at |-> t.now, downloaded |-> t.downloaded]),
              !.last_update_time = t.now,
              !.last_downloaded = t.downloaded]

\* ProgressTracker.start
ProgressTracker_start(t) ==
    [t EXCEPT !.started = TRUE, !.start_time = t.now, !.last_update_time = t.now,
              !.last_downloaded = 0]

\* ProgressTracker.update
ProgressTracker_update(t, bytes_downloaded) ==
    LET u == [t EXCEPT !.downloaded = bytes_downloaded]
    IN  IF due(u) THEN calculate_and_notify(u) ELSE u

\* ProgressTracker.finish: the final stats are returned, the callback is
\* not called.
ProgressTracker_finish(t) == [t EXCEPT !.finished = TRUE]

\* time.time() moves on.
TrackerTick ==
    /\ ~tracking.finished /\ tracking.now < MaxTime
    /\ tracking' = [tracking EXCEPT !.now = @ + 1]
    /\ UNCHANGED <<transfer, registry, call, disp, request, paths, dirs, headers, instances>>

TrackerStart ==
    /\ ~tracking.finished
    /\ tracking' = ProgressTracker_start(tracking)
    /\ UNCHANGED <<transfer, registry, call, disp, request, paths, dirs, headers, instances>>

TrackerUpdate ==
    /\ ~tracking.finished
    /\ \E bytes_downloaded \in 0..tracking.total_size :
        tracking' = ProgressTracker_update(tracking, bytes_downloaded)
    /\ UNCHANGED <<transfer, registry, call, disp, request, paths, dirs, headers, instances>>

\* The strategy's last line: tracker.finish() after the last chunk.
TrackerFinish ==
    /\ ~tracking.finished /\ tracking.started
    /\ tracking' = ProgressTracker_finish(tracking)
    /\ UNCHANGED <<transfer, registry, call, disp, request, paths, dirs, headers, instances>>

\* ------------------------------------------------------ the caller's headers
\* download(..., headers=...): None, an empty dict, or a dict with entries
\* (none of them a Range).
NoHeaders == [given |-> "none"]
HeadersGiven == {"none", "empty", "entries"}

\* _download_simple, `request_headers = headers or {}`: the caller's own
\* dict when it has entries, a new dict for None and for an empty dict.
\* _download_segment, `dict(headers) if headers else {}`: always a new dict.
request_headers_is_headers ==
    dl.strategy = "streaming" /\ headers.given = "entries"

\* The Range entry of the caller's mapping (-1: none): what request_headers
\* holds when the two are one object.
caller_range == IF request_headers_is_headers THEN simple.range ELSE -1

\* No side model is running.
RestIdle ==
    /\ request = IdleRequest
    /\ paths = IdlePaths
    /\ dirs = {<<>>}
    /\ tracking = IdleTracking
    /\ headers = NoHeaders
    /\ instances = IdleInstances

\* ---------------------------------------------------------- specification
\* What may lie at output_path before the call.  The streaming path reads
\* it: nothing, or the first n bytes of an earlier transfer, n up to one
\* more than the largest body.  The segmented path never reads it: nothing,
\* or the whole file of an earlier run.
LocalFiles(srv, a) ==
    IF UseSegmented(srv.size_known, srv.body_len, srv.resume, a.num_threads)
    THEN {NoFile, File(LocalFile(srv.body_len))}
    ELSE {NoFile} \cup {File(LocalFile(n)) : n \in 0..(MaxSize + 1)}

Init ==
    /\ server \in [body_len : 0..MaxSize, size_known : BOOLEAN, resume : BOOLEAN]
    /\ args \in [num_threads : 1..MaxThreads]
    /\ out_file \in LocalFiles(server, args)
    /\ faults = 0
    /\ dl = IdleDl
    /\ job = NewJob
    /\ segments = <<>>
    /\ task = <<>>
    /\ staging = <<>>
    /\ temp_dir = FALSE
    /\ simple = IdleSimple
    /\ plan = IdlePlan
    /\ tracker = NoTracker
    /\ registry = <<>>
    /\ call = NoCall
    /\ disp = IdleDisp
    /\ old_staging = <<>>
    /\ RestIdle

Next ==
    \/ get_file_info
    \/ StartSimple
    \/ SimpleRespond
    \/ SimpleNetError
    \/ SimpleChunk
    \/ SimpleEOF
    \/ SimpleWake
    \/ StartSegmented
    \/ \E k \in DOMAIN task : SegRespond(k)
    \/ \E k \in DOMAIN task : SegOpen(k)
    \/ \E k \in DOMAIN task : SegChunk(k)
    \/ \E k \in DOMAIN task : SegEOF(k)
    \/ \E k \in DOMAIN task : SegNetError(k)
    \/ \E k \in DOMAIN task : SegWake(k)
    \/ GatherRaise
    \/ Merge
    \/ Cancel

Spec == Init /\ [][Next]_vars

\* download() called again after a run that Completed: output_path holds the
\* whole body that run wrote, the server and the arguments are the same.
RerunInit ==
    /\ server \in [body_len : 1..MaxSize, size_known : BOOLEAN, resume : BOOLEAN]
    /\ args \in [num_threads : 1..MaxThreads]
    /\ out_file = File(Body(server.body_len))
    /\ faults = 0
    /\ dl = IdleDl
    /\ job = NewJob
    /\ segments = <<>>
    /\ task = <<>>
    /\ staging = <<>>
    /\ temp_dir = FALSE
    /\ simple = IdleSimple
    /\ plan = IdlePlan
    /\ tracker = NoTracker
    /\ registry = <<>>
    /\ call = NoCall
    /\ disp = IdleDisp
    /\ old_staging = <<>>
    /\ RestIdle

RerunSpec == RerunInit /\ [][Next]_vars

\* The staging files of a segmented run that was killed when its first c
\* fetchers had completed: their files hold their whole ranges, the others
\* hold nothing yet.
KilledStaging(total_size, num_threads, c) ==
    LET segs == create_segments(total_size, num_threads)
    IN  [k \in DOMAIN segs |->
            IF k <= c THEN File(BodyRange(total_size, segs[k].start, segs[k].end))
            ELSE File(<<>>)]

\* download() called again after a segmented run was killed before its
\* merge: the killed run's staging directory is still on disk, output_path
\* holds nothing, the server and the arguments are the same.
ResumeInit ==
    /\ server \in [body_len : 1..MaxSize, size_known : {TRUE}, resume : {TRUE}]
    /\ args \in [num_threads : 2..MaxThreads]
    /\ UseSegmented(TRUE, server.body_len, TRUE, args.num_threads)
    /\ \E c \in 1..(args.num_threads - 1) :
          old_staging = KilledStaging(server.body_len, args.num_threads, c)
    /\ out_file = NoFile
    /\ faults = 0
    /\ dl = IdleDl
    /\ job = NewJob
    /\ segments = <<>>
    /\ task = <<>>
    /\ staging = <<>>
    /\ temp_dir = FALSE
    /\ simple = IdleSimple
    /\ plan = IdlePlan
    /\ tracker = NoTracker
    /\ registry = <<>>
    /\ call = NoCall
    /\ disp = IdleDisp
    /\ RestIdle

ResumeNext ==
    \/ get_file_info
    \/ StartSegmented
    \/ \E k \in DOMAIN task : SegRespond(k)
    \/ \E k \in DOMAIN task : SegOpen(k)
    \/ \E k \in DOMAIN task : SegChunk(k)
    \/ \E k \in DOMAIN task : SegEOF(k)
    \/ \E k \in DOMAIN task : SegNetError(k)
    \/ \E k \in DOMAIN task : SegWake(k)
    \/ GatherRaise
    \/ Merge
    \/ Cancel

ResumeSpec == ResumeInit /\ [][ResumeNext]_vars

\* The planner on its own: every (total_size, num_segments) within bounds.
PlanInit ==
    /\ plan \in [total_size : 1..PlanMaxSize, num_segments : 1..PlanMaxThreads,
                 done : {FALSE}, result : {<<>>}]
    /\ server = [body_len |-> 0, size_known |-> FALSE, resume |-> FALSE]
    /\ args = [num_threads |-> 0]
    /\ out_file = NoFile
    /\ faults = 0
    /\ dl = [IdleDl EXCEPT !.pc = "plan"]
    /\ job = NewJob
    /\ segments = <<>>
    /\ task = <<>>
    /\ staging = <<>>
    /\ temp_dir = FALSE
    /\ simple = IdleSimple
    /\ tracker = NoTracker
    /\ registry = <<>>
    /\ call = NoCall
    /\ disp = IdleDisp
    /\ old_staging = <<>>
    /\ RestIdle

Plan ==
    /\ ~plan.done
    /\ plan' = [plan EXCEPT !.done = TRUE,
                            !.result = create_segments(plan.total_size, plan.num_segments)]
    /\ UNCHANGED <<server, args, dl, job, segments, task, staging, temp_dir, out_file, simple, faults,
                   tracker, old_staging, registry, call, disp, request, paths, dirs, tracking,
                   headers, instances>>

PlanNext == Plan

PlanSpec == PlanInit /\ [][PlanNext]_vars

\* No download() is running.
EngineIdle ==
    /\ server = [body_len |-> 0, size_known |-> FALSE, resume |-> FALSE]
    /\ args = [num_threads |-> 0]
    /\ out_file = NoFile
    /\ faults = 0
    /\ dl = [IdleDl EXCEPT !.pc = "idle"]
    /\ job = NewJob
    /\ segments = <<>>
    /\ task = <<>>
    /\ staging = <<>>
    /\ temp_dir = FALSE
    /\ simple = IdleSimple
    /\ plan = IdlePlan
    /\ tracker = NoTracker
    /\ old_staging = <<>>

\* The registry on its own: PluginRegistry() is empty.
RegistryInit ==
    /\ registry = <<>>
    /\ call = NoCall
    /\ disp = IdleDisp
    /\ EngineIdle
    /\ RestIdle

RegistryNext ==
    \/ LoadBuiltinPlugins
    \/ Register
    \/ Unregister
    \/ Lookup

RegistrySpec == RegistryInit /\ [][RegistryNext]_vars

\* The registry with its instance cache, used by calls in any order.
CacheNext ==
    \/ LoadBuiltinPlugins
    \/ Register
    \/ Unregister
    \/ GetPlugin
    \/ Lookup
    \/ LookupReturns

CacheSpec == RegistryInit /\ [][CacheNext]_vars

\* The dispatcher: the registry holds the built-in classes, perhaps with a
\* class of the user's own registered after them; a front end is called
\* with a URL and a number of threads.
DispatchInit ==
    /\ registry \in {Builtin} \cup
          {register(Builtin, c) : c \in {p \in PluginClasses : p.name = "custom"}}
    /\ call \in [url : Urls, threads : 1..MaxRequested, front : {"cli", "gui", "registry"}]
    /\ disp = IdleDisp
    /\ EngineIdle
    /\ RestIdle

DispatchNext ==
    \/ download_with_plugin
    \/ download_async
    \/ registry_extract
    \/ Extract
    \/ download_single

DispatchSpec == DispatchInit /\ [][DispatchNext]_vars

\* One streaming GET sequence under the session's timeout: a body of
\* 1..MaxSize chunks, the chunks arriving at any pace.
TimeoutInit ==
    /\ request \in {[IdleRequest EXCEPT !.pc = "start", !.size = n] : n \in 1..MaxSize}
    /\ paths = IdlePaths
    /\ dirs = {<<>>}
    /\ tracking = IdleTracking
    /\ headers = NoHeaders
    /\ instances = IdleInstances
    /\ registry = <<>>
    /\ call = NoCall
    /\ disp = IdleDisp
    /\ EngineIdle

TimeoutNext ==
    \/ TimedStart
    \/ TimedTick
    \/ TimedChunk
    \/ TimedEOF
    \/ TimedOut
    \/ TimedWake

TimeoutSpec == TimeoutInit /\ [][TimeoutNext]_vars

\* The directories on disk: any set of paths closed under parent.
DirTrees ==
    {ds \in SUBSET PathsUpTo(MaxDepth) :
        <<>> \in ds /\ \A p \in ds : Ancestors(p) \subseteq ds}

\* download() called with any output_path (none, or a path on or off the
\* disk), any filename override, any Content-Disposition and URL.
PathInit ==
    /\ dirs \in DirTrees
    /\ paths \in {[IdlePaths EXCEPT !.pc = "start", !.output_path = o, !.filename = f,
                                    !.content_disposition = cd, !.url_name = u] :
                     o \in {NoPath} \cup {GivenPath(p) : p \in PathsUpTo(MaxDepth)},
                     f \in {"", "a", "f"},
                     cd \in {"", "b"},
                     u \in {"", "u"}}
    /\ request = IdleRequest
    /\ tracking = IdleTracking
    /\ headers = NoHeaders
    /\ instances = IdleInstances
    /\ registry = <<>>
    /\ call = NoCall
    /\ disp = IdleDisp
    /\ EngineIdle

PathNext ==
    \/ DeterminePath
    \/ OpenOutput

PathSpec == PathInit /\ [][PathNext]_vars

\* A tracker for a download of known size, used by calls at arbitrary
\* times.
TrackerInit ==
    /\ tracking \in {[IdleTracking EXCEPT !.total_size = n] : n \in 1..MaxSize}
    /\ request = IdleRequest
    /\ paths = IdlePaths
    /\ dirs = {<<>>}
    /\ headers = NoHeaders
    /\ instances = IdleInstances
    /\ registry = <<>>
    /\ call = NoCall
    /\ disp = IdleDisp
    /\ EngineIdle

TrackerNext ==
    \/ TrackerTick
    \/ TrackerStart
    \/ TrackerUpdate
    \/ TrackerFinish

TrackerSpec == TrackerInit /\ [][TrackerNext]_vars

\* download() called with a headers argument.
HeadersInit ==
    /\ server \in [body_len : 0..MaxSize, size_known : BOOLEAN, resume : BOOLEAN]
    /\ args \in [num_threads : 1..MaxThreads]
    /\ out_file \in LocalFiles(server, args)
    /\ headers \in [given : HeadersGiven]
    /\ faults = 0
    /\ dl = IdleDl
    /\ job = NewJob
    /\ segments = <<>>
    /\ task = <<>>
    /\ staging = <<>>
    /\ temp_dir = FALSE
    /\ simple = IdleSimple
    /\ plan = IdlePlan
    /\ tracker = NoTracker
    /\ old_staging = <<>>
    /\ registry = <<>>
    /\ call = NoCall
    /\ disp = IdleDisp
    /\ request = IdleRequest
    /\ paths = IdlePaths
    /\ dirs = {<<>>}
    /\ tracking = IdleTracking
    /\ instances = IdleInstances

HeadersSpec == HeadersInit /\ [][Next]_vars

\* The steps of download() itself: what the event loop runs, the server
\* answers and the network does.  Cancel is the caller's.
Run ==
    \/ get_file_info
    \/ StartSimple
    \/ SimpleRespond
    \/ SimpleNetError
    \/ SimpleChunk
    \/ SimpleEOF
    \/ SimpleWake
    \/ StartSegmented
    \/ \E k \in DOMAIN task : SegRespond(k)
    \/ \E k \in DOMAIN task : SegOpen(k)
    \/ \E k \in DOMAIN task : SegChunk(k)
    \/ \E k \in DOMAIN task : SegEOF(k)
    \/ \E k \in DOMAIN task : SegNetError(k)
    \/ \E k \in DOMAIN task : SegWake(k)
    \/ GatherRaise
    \/ Merge

\* download() into a place where nothing lies.
FairInit == Init /\ out_file = NoFile

\* The event loop runs whatever is ready, every request is answered or
\* broken off (by the network, or by the session's timeout), every sleep
\* ends: a step of download() that stays possible is taken.  Nothing makes
\* the caller cancel.
FairSpec == FairInit /\ [][Next]_vars /\ WF_vars(Run)

\* download() of a body that has fewer bytes than the call has threads and
\* more than chunk_size: the strategy test admits it.
FewBytesInit ==
    /\ server \in [body_len : (ChunkSize + 1)..MaxThreads, size_known : {TRUE},
                    resume : {TRUE}]
    /\ args = [num_threads |-> MaxThreads + 1]
    /\ out_file = NoFile
    /\ faults = 0
    /\ dl = IdleDl
    /\ job = NewJob
    /\ segments = <<>>
    /\ task = <<>>
    /\ staging = <<>>
    /\ temp_dir = FALSE
    /\ simple = IdleSimple
    /\ plan = IdlePlan
    /\ tracker = NoTracker
    /\ registry = <<>>
    /\ call = NoCall
    /\ disp = IdleDisp
    /\ old_staging = <<>>
    /\ RestIdle

FewBytesSpec == FewBytesInit /\ [][ResumeNext]_vars

\* ----------------------------------------------------------------- claims
\* C1: every segmented download that ends Completed leaves at output_path
\* the merge of the staging files, byte for byte the server's full body,
\* whatever statuses (200 or 206) the ranged GETs were given.
C1_MergedEqualsBody ==
    (dl.strategy = "segmented" /\ job.status = "completed")
        => (out_file.exists /\ out_file.data = Body(server.body_len))

\* C2: when total_size is known, a download that ends Completed leaves a
\* file of exactly total_size bytes at output_path.
C2_FinalSizeIsTotalSize ==
    (job.status = "completed" /\ job.total_size_known)
        => (out_file.exists /\ Len(out_file.data) = job.total_size)

\* A ranged GET that 200 may answer: nothing downloaded yet, and the range
\* is the entire file.
WholeFileRequest(k) ==
    /\ segments[k].downloaded = 0
    /\ segments[k].start = 0
    /\ segments[k].end = job.total_size - 1

\* C3: a segment's ranged GET answered 200 with the full body is fatal:
\* when download() has returned or raised, the job is Failed, staging is
\* cleaned and the merge has written no output file.
C3_RangeIgnoredIsFatal ==
    (/\ dl.pc \in {"done", "failed"}
     /\ dl.strategy = "segmented"
     /\ \E k \in DOMAIN task : task[k].status = 200 /\ ~WholeFileRequest(k))
        => job.status = "failed"

\* C4: the segmented path is taken exactly when the size is known, resume
\* is supported, the size exceeds chunk_size and num_threads exceeds 1;
\* otherwise the streaming path; never segmented with an unknown size.
C4_StrategySelection ==
    dl.strategy # "none" =>
        /\ dl.strategy \in {"segmented", "streaming"}
        /\ dl.strategy = "segmented" <=>
              (/\ job.total_size_known
               /\ server.resume
               /\ job.total_size > ChunkSize
               /\ job.num_threads > 1)
        /\ (~job.total_size_known \/ job.total_size = 0) => dl.strategy = "streaming"

\* A download that went segmented, with more than one fetcher.
C4_Witness ==
    /\ dl.strategy = "segmented"
    /\ Len(task) = job.num_threads
    /\ job.num_threads > 1

RECURSIVE SumSizes(_, _)
SumSizes(segs, n) == IF n = 0 THEN 0 ELSE SegSize(segs[n]) + SumSizes(segs, n - 1)

\* The byte offsets a segment covers.
Offsets(seg) == seg.start .. seg.end

\* C5: for total_size s > 0 and n >= 1 the planner gives exactly n segments,
\* ids 0..n-1, pairwise disjoint, contiguous in id order, covering [0, s-1]
\* exactly, sizes summing to s; segment i < n-1 is
\* [i*(s div n), i*(s div n) + (s div n) - 1] and segment n-1 ends at s-1.
C5_PlanIsPartition ==
    plan.done =>
        LET s == plan.total_size
            n == plan.num_segments
            r == plan.result
            q == s \div n
        IN  /\ Len(r) = n
            /\ \A k \in 1..n : r[k].id = k - 1
            /\ \A k \in 1..(n - 1) :
                  /\ r[k].start = (k - 1) * q
                  /\ r[k].end = r[k].start + q - 1
                  /\ r[k + 1].start = r[k].end + 1
            /\ r[1].start = 0
            /\ r[n].end = s - 1
            /\ \A a, b \in 1..n : a # b => Offsets(r[a]) \cap Offsets(r[b]) = {}
            /\ UNION {Offsets(r[k]) : k \in 1..n} = 0..(s - 1)
            /\ SumSizes(r, n) = s

\* The planner has run with fewer bytes than segments, and with a remainder.
C5_Witness ==
    /\ plan.done
    /\ plan.total_size < plan.num_segments
    /\ SegSize(plan.result[1]) = 0

\* C6: once _download_segmented has exited, on whatever path, no staging
\* file and no staging directory of the job exists, nor does one appear
\* later through a fetcher that is still running.
C6_StagingCleaned ==
    (dl.strategy = "segmented" /\ Exited)
        => (~temp_dir /\ \A k \in DOMAIN staging : ~staging[k].exists)

\* C7: once a fetcher's permanent error has failed the job (and the staging
\* directory is gone), the other fetchers are cancelled: none issues another
\* GET, none writes another chunk, and the error recorded on the job stays
\* the first one.
C7_SiblingsCancelled ==
    [][(dl.strategy = "segmented" /\ job.status = "failed" /\ ~temp_dir) =>
          /\ \A k \in DOMAIN task :
                /\ task'[k].gets = task[k].gets
                /\ segments'[k].downloaded = segments[k].downloaded
          /\ job'.error_message = job.error_message]_vars

\* The statuses and errors the specification calls retryable: a transport
\* error or timeout (no status: 0), 429 and 5xx.
Retryable(st) == st = 0 \/ st = 429 \/ st >= 500

\* C8: a transport error, a timeout, a 429 or a 5xx fails neither the
\* streaming download nor a segment fetcher while fewer than max_retries
\* retries have been made.
C8_TransientRetried ==
    /\ (simple.pc = "raised" /\ Retryable(simple.status)) => simple.attempt = MaxRetries
    /\ \A k \in DOMAIN task :
          (task[k].pc = "failed" /\ Retryable(task[k].status))
              => task[k].attempt = MaxRetries

\* HTTP 4xx other than 429.
ClientError(st) == st >= 400 /\ st < 500 /\ st # 429

\* C9: a GET answered 4xx other than 429 is never retried: the streaming
\* download fails the job at once and so does the segment fetcher.
C9_ClientErrorFatal ==
    /\ ClientError(simple.status) => (simple.pc = "raised" /\ job.status = "failed")
    /\ \A k \in DOMAIN task : ClientError(task[k].status) => task[k].pc = "failed"

\* Attempt k+1 (0-indexed) starts only after the k+1 sleeps that ended the
\* attempts 0..k, and the sleep that ended attempt k took at least 2^k.
DelaysOf(frame) ==
    /\ frame.pc \in {"wait", "opening", "body", "done", "returned"} =>
          Len(frame.delays) = frame.attempt
    /\ frame.pc = "sleep" => Len(frame.delays) = frame.attempt + 1
    /\ \A a \in 1..Len(frame.delays) : frame.delays[a] >= 2 ^ (a - 1)

RECURSIVE SumSeq(_)
SumSeq(q) == IF q = <<>> THEN 0 ELSE Head(q) + SumSeq(Tail(q))

\* C10: in the streaming path and in every segment fetcher the delay between
\* the end of attempt k and the start of attempt k+1 is at least 2^k
\* seconds, whatever caused the retry; a fetcher that completes on its third
\* attempt has waited at least 3 seconds.
C10_BackoffDelays ==
    /\ DelaysOf(simple)
    /\ \A k \in DOMAIN task :
          /\ DelaysOf(task[k])
          /\ (task[k].pc = "done" /\ task[k].attempt = 2) => SumSeq(task[k].delays) >= 3

\* Two failed attempts, then 206: the third attempt completed the segment.
C10_Witness ==
    \E k \in DOMAIN task :
        /\ task[k].pc = "done"
        /\ task[k].attempt = 2
        /\ task[k].status = 206
        /\ task[k].gets = 3
        /\ segments[k].completed
        /\ simple.pc = "idle"

\* C11: within one job the downloaded values passed to the progress tracker
\* (of which the progress callback is given a subsequence) never decrease:
\* streaming (resume, range-ignored restart, retries) and segmented.
C11_ProgressMonotone ==
    [][tracker'.downloaded >= tracker.downloaded]_vars

\* DownloadStatus values the specification calls terminal.
Terminal(st) == st \in {"completed", "failed", "cancelled"}

\* C12: a job is created Pending and becomes Downloading from Pending only;
\* every way download() ends once the job exists leaves a terminal status
\* (Completed, Failed or Cancelled); a terminal status never changes again;
\* Completed is set only after the streamed body or the merge has been
\* written to the end.
C12_StatusStateMachine ==
    [][/\ (dl.pc = "head" /\ dl'.pc = "select") => job'.status = "pending"
       /\ (job'.status = "downloading" /\ job.status # "downloading")
             => job.status = "pending"
       /\ (Exited' /\ dl'.pc # "raised") => Terminal(job'.status)
       /\ Terminal(job.status) => job'.status = job.status
       /\ (job'.status = "completed" /\ job.status # "completed") =>
             \/ dl.strategy = "segmented"
                  /\ out_file' = File(merge_segments(staging, Len(segments)))
             \/ dl'.strategy = "streaming" /\ simple'.pc = "returned"
                  /\ simple'.incoming = <<>>]_vars

\* The task running download() has been cancelled.
WasCancelled ==
    \/ dl.pc = "cancelled"
    \/ \E k \in DOMAIN task : task[k].pc = "cancelled"

\* C13: after an external cancellation of a Downloading job the status is
\* Cancelled, the job carries no error, and no staging file or directory is
\* left.
C13_CancelledCleanly ==
    WasCancelled =>
        /\ job.status = "cancelled"
        /\ job.error_message = NoError
        /\ ~temp_dir
        /\ \A k \in DOMAIN staging : ~staging[k].exists

\* C14: whenever download() ends in failure, of the HEAD request or of the
\* body transfer, the job is Failed and carries an error, the one that made
\* download() raise; a Completed job carries none.
C14_FailureReported ==
    /\ dl.pc \in {"failed", "raised"} =>
          /\ job.status = "failed"
          /\ job.error_message # NoError
          /\ job.error_message = dl.exc
    /\ job.status = "completed" => job.error_message = NoError

\* C15: download() run again after a Completed run is a no-op, whichever
\* strategy the metadata selects: when HEAD gives the size and resume
\* support and the server answers every request properly, it issues no body
\* GET, leaves the output file as it was and returns Completed.
C15_RerunIsNoOp ==
    (/\ dl.pc \notin {"head", "select", "raised"}
     /\ server.size_known /\ server.resume
     /\ faults = 0) =>
        /\ simple.gets = 0
        /\ \A k \in DOMAIN task : task[k].gets = 0
        /\ out_file = File(Body(server.body_len))
        /\ dl.pc = "done" /\ job.status = "completed"

\* Fetcher k had completed its segment in the killed run.
SavedComplete(k) ==
    /\ k \in DOMAIN old_staging
    /\ old_staging[k].exists
    /\ Len(old_staging[k].data) = SegSize(segments[k])

\* C16: a segmented download restarted after a kill resumes from the data
\* the killed run staged: it issues no GET for a segment that run had
\* completed, and with a server that honours Range the file it ends with is
\* byte for byte the server's body.
C16_ResumesFromStaged ==
    dl.strategy = "segmented" =>
        /\ \A k \in DOMAIN task : SavedComplete(k) => task[k].gets = 0
        /\ (job.status = "completed" /\ faults = 0)
              => out_file = File(Body(server.body_len))

\* The registered site-specific classes (any but the generic HTTP one) that
\* can handle the URL.
SpecificMatches(reg, url) == {k \in Matching(reg, url) : reg[k].name # "http"}

\* C17: a lookup returns the first class in registration order that matches
\* the URL, and in the built-in registry the generic HTTP class is only the
\* last resort: for an http(s) URL that a site-specific class matches, the
\* lookup returns a site-specific class that matches, not the HTTP one.
C17_SpecificBeforeGeneric ==
    disp.pc = "looked" =>
        /\ \A k \in Matching(registry, call.url) :
              \E m \in 1..k : registry[m] = disp.plugin
        /\ (/\ registry = Builtin
            /\ call.url.scheme \in {"http://", "https://"}
            /\ SpecificMatches(registry, call.url) # {})
              => /\ disp.plugin.name # "http"
                 /\ can_handle(disp.plugin.name, call.url)

\* C18: when _download_with_plugin has matched a site-specific class, every
\* engine invocation runs with min(requested, max_threads) threads if the
\* class declares max_threads, with the requested number if it declares
\* none; and in both cases the dispatcher goes on to extract and download.
C18_ThreadsClamped ==
    (/\ call.front = "cli" /\ disp.pc # "start"
     /\ disp.plugin.name \notin {"none", "http"}) =>
        LET max_threads == disp.plugin.max_threads
            expected == IF max_threads.declared /\ max_threads.value # 0
                        THEN Min(call.threads, max_threads.value)
                        ELSE call.threads
        IN  /\ disp.threads = expected
            /\ \A k \in DOMAIN disp.started : disp.started[k].threads = expected
            /\ disp.tried = <<disp.plugin.name>>

\* C19: when an extractor has resolved the URL to n descriptors and the
\* front end has finished, the engine has been invoked once per descriptor,
\* in order, whatever the earlier invocations ended with; the GUI has been
\* told a terminal status for each.
C19_EveryDescriptorStarted ==
    (/\ call.front \in {"cli", "gui"}
     /\ disp.pc = "returned" /\ ~disp.direct /\ disp.n >= 1) =>
        /\ Len(disp.started) = disp.n
        /\ \A k \in DOMAIN disp.started : disp.started[k].descriptor = k
        /\ call.front = "gui" => Len(disp.signals) = disp.n

\* C20: once a site-specific extractor has matched and its extract() has
\* raised ExtractionError the dispatcher is finished with the URL: extract()
\* was awaited on that one plugin only and the engine was never invoked.
C20_ExtractionErrorTerminal ==
    disp.error = "ExtractionError" =>
        /\ disp.pc \in {"returned", "raised"}
        /\ disp.plugin.name \notin {"none", "http"}
        /\ disp.tried = <<disp.plugin.name>>
        /\ disp.started = <<>>

\* _download_with_plugin has returned None after the matched plugin's
\* extract() raised ExtractionError.
C20_Witness ==
    /\ call.front = "cli"
    /\ disp.error = "ExtractionError"
    /\ disp.pc = "returned" /\ disp.result = "None"
    /\ disp.tried = <<disp.plugin.name>>
    /\ can_handle(disp.plugin.name, call.url)

\* C21: a URL that no registered class can handle, the generic HTTP one
\* included, is fatal with UnsupportedURLError: whichever front end was
\* given it invokes the engine for no download, and ends with that error.
C21_UnsupportedUrlFatal ==
    (disp.pc \notin {"start", "looked"} /\ Matching(registry, call.url) = {}) =>
        /\ disp.started = <<>>
        /\ disp.pc \in {"raised", "returned"}
        /\ disp.error = "UnsupportedURLError"

\* The streaming GET that is waiting was sent with Range: bytes=N-.
RangedFrom(n) == simple.pc = "wait" /\ simple.range = n /\ n > 0

\* C22: streaming resume.  With N > 0 bytes at output_path and resume
\* supported the first GET carries Range: bytes=N- and the tracker is seeded
\* with N; a 206 leaves the N bytes and appends; a 200 truncates and writes
\* from zero; a 416 with a local file of at least total_size bytes makes
\* the download Completed.
C22_StreamingResume ==
    [][/\ (/\ dl.pc = "select" /\ dl'.pc = "simple"
           /\ out_file.exists /\ Len(out_file.data) > 0 /\ server.resume)
             => /\ simple'.range = Len(out_file.data)
                /\ tracker'.downloaded = Len(out_file.data)
       /\ (RangedFrom(simple.range) /\ simple'.status = 206)
             => /\ simple'.mode = "ab"
                /\ out_file' = out_file
       /\ (RangedFrom(simple.range) /\ simple'.status = 200)
             => /\ simple'.mode = "wb"
                /\ out_file' = File(<<>>)
       /\ (/\ RangedFrom(simple.range) /\ simple'.status = 416
           /\ server.resume /\ job.total_size_known /\ job.total_size > 0
           /\ Len(out_file.data) >= job.total_size)
             => job'.status = "completed"]_vars

\* C23: the timeout covers each chunk read of a GET, not the whole
\* transfer: a request is ended by the timeout only when no chunk has
\* arrived for Timeout ticks, and a request the timeout ended is retried
\* like a transport error while attempts remain.
C23_TimeoutPerChunk ==
    [][(request.pc = "read" /\ request'.pc \in {"sleep", "raised"}) =>
          /\ request.idle >= Timeout
          /\ request.attempt < MaxRetries => request'.pc = "sleep"]_vars

\* C24: download() resolves the output path: a directory the caller gives
\* is joined with the filename, any other path the caller gives is used as
\* it is, and with no path the result is download_dir joined with the
\* filename; the filename is the caller's override when there is one, else
\* the one taken from the metadata; when the file has been opened for
\* writing every directory above it exists.
C24_OutputPathResolution ==
    paths.pc \in {"job", "opened", "failed"} =>
        LET given == paths.output_path.given
            path == paths.output_path.path
            name == paths.final_filename
        IN  /\ name = IF paths.filename # "" THEN paths.filename
                      ELSE extract_filename(paths.content_disposition, paths.url_name)
            /\ (given /\ path \in dirs) => paths.job_output_path = path \o <<name>>
            /\ (given /\ path \notin dirs) => paths.job_output_path = path
            /\ ~given => paths.job_output_path = download_dir \o <<name>>
            /\ paths.pc = "opened" => Ancestors(paths.job_output_path) \subseteq dirs

\* The caller gave a directory and an override, and the file has been opened.
C24_Witness ==
    /\ paths.pc = "opened"
    /\ paths.output_path.given /\ paths.output_path.path \in dirs
    /\ paths.filename = "f"
    /\ paths.job_output_path = paths.output_path.path \o <<"f">>

\* C25: in every state of a segmented download every segment has
\* start <= end and 0 <= downloaded <= size, and a completed segment has
\* downloaded = size.
C25_SegmentInvariants ==
    \A k \in DOMAIN segments :
        /\ segments[k].start <= segments[k].end
        /\ 0 <= segments[k].downloaded
        /\ segments[k].downloaded <= SegSize(segments[k])
        /\ segments[k].completed => segments[k].downloaded = SegSize(segments[k])

\* The GETs fetcher k has issued before and after a step.
GetsBefore(k) == IF k \in DOMAIN task THEN task[k].gets ELSE 0

\* C26: every GET of a segment fetcher asks for bytes start+downloaded..end
\* with the segment's downloaded count of that moment; a retry with
\* downloaded > 0 in a running download opens the staging file for append
\* (what it holds stays); downloaded is never
\* reset; and a fetcher that was retried and whose ranges the server
\* honoured leaves, when it completes in a running download, exactly the
\* bytes start..end of the body in its staging file.
C26_SegmentRetryResumes ==
    [][\A k \in DOMAIN task' :
        /\ task'[k].gets > GetsBefore(k) =>
              /\ task'[k].lo = segments'[k].start + segments'[k].downloaded
              /\ task'[k].hi = segments'[k].end
        /\ k \in DOMAIN segments => segments'[k].downloaded >= segments[k].downloaded
        /\ (/\ k \in DOMAIN task /\ task[k].pc = "opening" /\ task'[k].pc = "body"
            /\ segments[k].downloaded > 0 /\ staging[k].exists /\ dl'.pc = "gather")
              => staging'[k] = staging[k]
        /\ (task'[k].pc = "done" /\ task'[k].honoured /\ dl'.pc = "gather") =>
              staging'[k] = File(BodyRange(server.body_len, segments[k].start,
                                           segments[k].end))]_vars

\* A fetcher lost its connection in the middle of its segment, asked for the
\* rest, was given it and has completed.
C26_Witness ==
    \E k \in DOMAIN task :
        /\ task[k].pc = "done" /\ task[k].honoured /\ dl.pc = "gather"
        /\ task[k].attempt > 0
        /\ task[k].lo > segments[k].start
        /\ staging[k] = File(BodyRange(server.body_len, segments[k].start, segments[k].end))

\* The size the streaming path reads from the output file.
SizeOnDisk == IF out_file.exists THEN Len(out_file.data) ELSE 0

\* C27: after a transport error the streaming path leaves the output file
\* as it is and asks, in its next GET, for the bytes from the file's size
\* of that moment on; when that GET is answered 206 and its body read to
\* the end, the file is the whole body.
C27_StreamingRetryResumes ==
    [][/\ (/\ dl.pc = "simple" /\ simple.pc \in {"wait", "body"}
           /\ simple'.pc = "sleep" /\ simple'.status = 0)
             => /\ out_file' = out_file
                /\ simple'.range = SizeOnDisk
       /\ (simple.pc = "sleep" /\ simple'.pc = "wait")
             => /\ simple'.range = simple.range
                /\ out_file' = out_file
       /\ (/\ dl.pc = "simple" /\ job'.status = "completed"
           /\ simple.attempt > 0 /\ simple.status = 206)
             => out_file'.data = Body(server.body_len)]_vars

\* A streaming transfer broke off with bytes on disk, asked for the rest,
\* was given it and has completed.
C27_Witness ==
    /\ dl.strategy = "streaming" /\ job.status = "completed"
    /\ simple.attempt > 0 /\ simple.status = 206 /\ simple.range > 0
    /\ simple.mode = "ab"
    /\ out_file = File(Body(server.body_len))

\* The bytes staged for the segments before the k-th.
RECURSIVE StagedBefore(_)
StagedBefore(k) == IF k = 1 THEN 0 ELSE StagedBefore(k - 1) + Len(staging[k - 1].data)

\* C28: in whatever order the fetchers completed, a merge that runs to its
\* end writes the staging files in ascending segment id order, each once:
\* the k-th file's bytes lie in the output right after those of the files
\* before it, and the output holds nothing else.
C28_MergeAscending ==
    [][(dl.pc = "gather" /\ dl'.pc = "done") =>
          /\ out_file'.exists
          /\ Len(out_file'.data) = StagedBefore(Len(staging) + 1)
          /\ \A k \in DOMAIN staging :
                SubSeq(out_file'.data, StagedBefore(k) + 1,
                       StagedBefore(k) + Len(staging[k].data)) = staging[k].data]_vars

\* The fetcher of the last segment completed first, and the merge has run.
C28_Witness ==
    /\ dl.strategy = "segmented" /\ dl.pc = "done"
    /\ Len(segments) > 1
    /\ dl.first = Len(segments)
    /\ out_file = File(Body(server.body_len))

\* C29: in a segmented download the file at output_path is left as it is
\* by every step but the merge, and the merge runs only when gather has
\* returned, every fetcher done and none failed: so no step taken while a
\* fetcher runs, and no step of a download whose fetch phase fails, creates
\* or changes the file.
C29_OutputOnlyByMerge ==
    [][(dl'.strategy = "segmented" /\ out_file' # out_file) =>
          /\ dl.pc = "gather" /\ dl.exc = NoError
          /\ \A k \in DOMAIN task : task[k].pc = "done" /\ segments[k].completed]_vars

\* A fetcher failed, download() has raised, and the file that lay at
\* output_path before the call is still there, whole.
C29_Witness ==
    /\ dl.strategy = "segmented" /\ dl.pc = "failed"
    /\ \E k \in DOMAIN task : task[k].pc = "failed"
    /\ \E k \in DOMAIN task : task[k].pc = "done"
    /\ out_file = File(LocalFile(server.body_len))

\* C30: the streaming path and each segment fetcher issue at most
\* max_retries + 1 GETs in a call of download() and never sleep after the
\* last attempt (its error is raised), and every call of download() comes
\* to an end.
C30_BoundedRetriesTerminate ==
    /\ [](/\ simple.gets <= MaxRetries + 1
          /\ simple.pc = "sleep" => simple.attempt < MaxRetries
          /\ \A k \in DOMAIN task :
                /\ task[k].gets <= MaxRetries + 1
                /\ task[k].pc = "sleep" => task[k].attempt < MaxRetries)
    /\ <>Exited

\* Every attempt of a streaming download ended in a transport error, and
\* after the last one download() has failed.
C30_Witness ==
    /\ dl.strategy = "streaming" /\ dl.pc = "failed" /\ job.status = "failed"
    /\ simple.gets = MaxRetries + 1
    /\ Len(simple.delays) = MaxRetries
    /\ dl.exc.kind = "transport"

\* C31: in a segmented download, under every interleaving of the fetchers,
\* job.downloaded_size is the sum of downloaded over the job's segments
\* after every chunk, and the tracker has been given that sum.
C31_DownloadedIsSum ==
    (dl.strategy = "segmented" /\ segments # <<>>) =>
        LET total[k \in 0..Len(segments)] ==
                IF k = 0 THEN 0 ELSE total[k - 1] + segments[k].downloaded
        IN  /\ job.downloaded_size = total[Len(segments)]
            /\ tracker.downloaded = total[Len(segments)]

\* Two fetchers have each written a chunk, and the job counts both.
C31_Witness ==
    /\ dl.strategy = "segmented" /\ Len(segments) > 1
    /\ segments[1].downloaded > 0 /\ segments[2].downloaded > 0
    /\ job.downloaded_size = segments[1].downloaded + segments[2].downloaded
    /\ tracker.downloaded = job.downloaded_size

\* C32: when total_size < num_threads the plan has num_threads segments,
\* all but the last of width zero; the fetcher of a zero-width segment
\* issues no GET and writes no byte; and a job that completes leaves a
\* file of total_size bytes.
C32_ZeroWidthShortCircuit ==
    (dl.strategy = "segmented" /\ segments # <<>> /\ job.total_size < job.num_threads) =>
        /\ Len(segments) = job.num_threads
        /\ \A k \in 1..(Len(segments) - 1) : SegSize(segments[k]) = 0
        /\ \A k \in DOMAIN segments :
              SegSize(segments[k]) = 0 =>
                  /\ k \in DOMAIN task => task[k].gets = 0
                  /\ segments[k].downloaded = 0
        /\ job.status = "completed" => Len(out_file.data) = job.total_size

\* A step in which the tracker's callback is invoked.
Notifies == Len(tracking'.samples) > Len(tracking.samples)

\* The time of the last callback invocation before the step, if any, is at
\* least update_interval back.
ApartFromLast ==
    tracking.samples # <<>> =>
        tracking.now - tracking.samples[Len(tracking.samples)].at >= UpdateInterval

C37_LastSampleDelivered ==
    (tracking.finished /\ tracking.downloaded = tracking.total_size) =>
        \E k \in DOMAIN tracking.samples :
            tracking.samples[k].downloaded = tracking.total_size

\* C36: download() leaves the caller's headers mapping as it was: at no
\* point of a download (streaming with resume or retries, or segmented)
\* does the mapping the caller passed hold a Range entry.
C36_HeadersUnchanged == headers.given # "none" => caller_range = -1

\* C34: whenever download() has returned Completed with total_size known,
\* job.downloaded_size equals total_size and the size of the output file;
\* stated for the case the claim names: a streaming download that resumed
\* a partial file, with a server that supports ranges, and whose last
\* attempt was answered 206 and appended to the file.
C34_CompletedCountsEveryByte ==
    (/\ job.status = "completed" /\ job.total_size_known
     /\ dl.strategy = "streaming" /\ server.resume
     /\ simple.status = 206 /\ simple.mode = "ab") =>
        /\ job.downloaded_size = job.total_size
        /\ job.downloaded_size = Len(out_file.data)

\* C35: every Range a segment fetcher has asked for is non-empty and lies
\* inside its own segment (start + downloaded <= end at the moment of the
\* GET), also on the retry after a transport error that came when the
\* segment's last byte was written; the ranges of two fetchers never
\* overlap.  Stated for fetchers whose bodies so far all came with a 206.
C35_RangeInsideSegment ==
    /\ \A k \in DOMAIN task :
          (task[k].gets > 0 /\ task[k].honoured) =>
              /\ task[k].lo <= task[k].hi
              /\ segments[k].start <= task[k].lo
              /\ task[k].hi = segments[k].end
    /\ \A k, m \in DOMAIN task :
          (k < m /\ task[k].gets > 0 /\ task[m].gets > 0
                 /\ task[k].honoured /\ task[m].honoured) =>
              task[k].hi < task[m].lo

\* C38: after any sequence of register, unregister, get_plugin and
\* get_plugin_for_url calls, get_plugin(name) returns None iff no class is
\* registered under name, and otherwise an instance of the class registered
\* under that name last, also when an instance of a class registered under
\* the name before had been created and cached.
C38_GetPluginIsCurrentClass ==
    [][GetPlugin => instances'.got = Registered(registry, instances'.name)]_vars

====
